---------------------------- MODULE Spec2Model ----------------------------
(***************************************************************************)
(* A model of services/01_url_pull/main.py: the YouTubeVideoFetcher class  *)
(* (the date window, the pagination loop of fetch_videos, the item         *)
(* normalisation of _process_video_items) and the part of main() that      *)
(* calls it.  The YouTube search service is the environment: it answers    *)
(* every request with a response body, an HttpError, another Exception, or *)
(* the user interrupts the process while the request is in flight.         *)
(***************************************************************************)
EXTENDS Integers, Sequences, FiniteSets, TLC

VARIABLES
    pc,               \* position of main(): "main", "call", "loop", "inflight",
                      \* "returned", "done", "exited"
    now,              \* the wall clock, seconds since 1970-01-01T00:00:00Z
    utcoffset,        \* the local zone of the process, seconds east of UTC
    window,           \* (published_after, published_before) of the running fetch_videos call
    all_videos,       \* local accumulator of fetch_videos
    next_page_token,  \* local cursor of fetch_videos
    page_count,       \* local page counter of fetch_videos
    requests,         \* the request_params handed to youtube.search().list(), in order
    responses,        \* what the service did with each request, in order
    fetch_result,     \* how the fetch_videos call ended, as main() sees it
    summarized,       \* what print_video_summary was called with
    saved,            \* what save_to_json was called with
    exit_code,        \* the argument of sys.exit, once the process exited that way
    script,           \* the responses a scripted (mock) service will give, when one is installed
    first_result,     \* the result of the call made before the scripted service was installed
    raw_item,         \* the item handed to _process_video_items on its own
    norm_result       \* what that call came back with

vars == <<pc, now, utcoffset, window, all_videos, next_page_token, page_count,
          requests, responses, fetch_result, summarized, saved, exit_code,
          script, first_result, script, first_result, raw_item, norm_result>>

-----------------------------------------------------------------------------
(* Python values *)

\* None
NoneVal == "<None>"

\* an optional already-computed value: a variable not assigned yet
Nothing == [has |-> FALSE]
Some(v) == [has |-> TRUE, val |-> v]

\* {} : a dict without keys
EmptyDict == <<>>

\* d.get(k, default)
Get(d, k, default) == IF k \in DOMAIN d THEN d[k] ELSE default

\* the result of a call: a value, or an exception leaving the callee
Return(v) == [raised |-> FALSE, value |-> v]
Raise(e) == [raised |-> TRUE, exc |-> e]

\* mutation: None taken for a cursor (a test against "" instead of truthiness)
TruthyNoneIncluded(v) == v # ""

\* bool(v) of a string or None: "if next_page_token", "if not next_page_token"
Truthy(v) == v # NoneVal /\ v # ""

\* bool(v) of a list: "if videos"
TruthyList(s) == Len(s) > 0

-----------------------------------------------------------------------------
(* datetime: the proleptic Gregorian calendar, naive (zone-less) date-times *)

\* timedelta(days=365)
DaysInWindow == 365

\* date.fromordinal, shifted to days since 1970-01-01
CivilFromDays(days) ==
    LET z == days + 719468
        era == z \div 146097
        doe == z - era * 146097
        yoe == (doe - doe \div 1460 + doe \div 36524 - doe \div 146096) \div 365
        doy == doe - (365 * yoe + yoe \div 4 - yoe \div 100)
        mp == (5 * doy + 2) \div 153
        d == doy - (153 * mp + 2) \div 5 + 1
        m == IF mp < 10 THEN mp + 3 ELSE mp - 9
        y == yoe + era * 400 + (IF m <= 2 THEN 1 ELSE 0)
    IN  [year |-> y, month |-> m, day |-> d]

\* date.toordinal, shifted to days since 1970-01-01
DaysFromCivil(y, m, d) ==
    LET yy == IF m <= 2 THEN y - 1 ELSE y
        era == yy \div 400
        yoe == yy - era * 400
        doy == (153 * (IF m > 2 THEN m - 3 ELSE m + 9) + 2) \div 5 + d - 1
        doe == yoe * 365 + yoe \div 4 - yoe \div 100 + doy
    IN  era * 146097 + doe - 719468

\* a naive datetime from a count of seconds since 1970-01-01T00:00:00 of its own calendar
NaiveFromSeconds(secs) ==
    LET days == secs \div 86400
        rest == secs % 86400
        date == CivilFromDays(days)
    IN  [year |-> date.year, month |-> date.month, day |-> date.day,
         hour |-> rest \div 3600, minute |-> (rest % 3600) \div 60, second |-> rest % 60]

SecondsFromNaive(dt) ==
    DaysFromCivil(dt.year, dt.month, dt.day) * 86400
        + dt.hour * 3600 + dt.minute * 60 + dt.second

\* datetime.now(): no tz argument, so the LOCAL wall-clock reading of instant t
\* in a zone utc_off seconds east of UTC, without zone information
DatetimeNow(t, utc_off) == NaiveFromSeconds(t + utc_off)

\* dt - timedelta(days=n) on a naive datetime: calendar arithmetic
MinusDays(dt, n) == NaiveFromSeconds(SecondsFromNaive(dt) - n * 86400)

DigitChars == <<"0", "1", "2", "3", "4", "5", "6", "7", "8", "9">>
Digit(d) == DigitChars[d + 1]
Pad2(n) == Digit((n \div 10) % 10) \o Digit(n % 10)
Pad4(n) == Pad2(n \div 100) \o Pad2(n % 100)

\* dt.strftime('%Y-%m-%dT%H:%M:%SZ'): the fields of dt as they are, and a literal Z
Strftime(dt) ==
    Pad4(dt.year) \o "-" \o Pad2(dt.month) \o "-" \o Pad2(dt.day) \o "T"
        \o Pad2(dt.hour) \o ":" \o Pad2(dt.minute) \o ":" \o Pad2(dt.second) \o "Z"

\* YouTubeVideoFetcher._get_date_range at instant t in a zone utc_off east of UTC
GetDateRange(t, utc_off) ==
    LET today == DatetimeNow(t, utc_off)
        one_year_ago == MinusDays(today, DaysInWindow)
        published_before == Strftime(today)
        published_after == Strftime(one_year_ago)
    IN  <<published_after, published_before>>

-----------------------------------------------------------------------------
(* RFC 3339, the reading side: what instant a wire timestamp denotes *)

IsDigit(c) == \E d \in 0..9 : DigitChars[d + 1] = c
DigitVal(c) == CHOOSE d \in 0..9 : DigitChars[d + 1] = c
Char(s, i) == SubSeq(s, i, i)
Num(s, from, to) ==
    LET RECURSIVE acc(_, _)
        acc(i, v) == IF i > to THEN v ELSE acc(i + 1, 10 * v + DigitVal(Char(s, i)))
    IN  acc(from, 0)

\* YYYY-MM-DDTHH:MM:SSZ : seconds precision, no fraction, the zone marker Z (UTC)
IsUtcSecondsTimestamp(s) ==
    /\ Len(s) = 20
    /\ \A i \in {1, 2, 3, 4, 6, 7, 9, 10, 12, 13, 15, 16, 18, 19} : IsDigit(Char(s, i))
    /\ Char(s, 5) = "-" /\ Char(s, 8) = "-" /\ Char(s, 11) = "T"
    /\ Char(s, 14) = ":" /\ Char(s, 17) = ":" /\ Char(s, 20) = "Z"

\* the instant (seconds since the epoch) a Z-marked timestamp denotes
InstantOf(s) ==
    DaysFromCivil(Num(s, 1, 4), Num(s, 6, 7), Num(s, 9, 10)) * 86400
        + Num(s, 12, 13) * 3600 + Num(s, 15, 16) * 60 + Num(s, 18, 19)

-----------------------------------------------------------------------------
(* YouTubeVideoFetcher._process_video_items *)

WatchUrlPrefix == "https://www.youtube.com/watch?v="

\* item['id']['videoId'], item['snippet'][...]: the subscripts that raise
\* KeyError when the key is absent
Subscriptable(item) ==
    /\ "id" \in DOMAIN item
    /\ "videoId" \in DOMAIN item["id"]
    /\ "snippet" \in DOMAIN item
    /\ {"title", "description", "publishedAt", "channelTitle", "thumbnails"}
           \subseteq DOMAIN item["snippet"]

\* mutation: the medium thumbnail read instead of the default one
VideoDataMediumThumbnail(item) ==
    [video_id |-> item["id"]["videoId"],
     title |-> item["snippet"]["title"],
     description |-> item["snippet"]["description"],
     published_at |-> item["snippet"]["publishedAt"],
     channel_title |-> item["snippet"]["channelTitle"],
     thumbnail_url |-> Get(Get(item["snippet"]["thumbnails"], "medium", EmptyDict), "url", ""),
     video_url |-> WatchUrlPrefix \o item["id"]["videoId"]]

\* the dict literal built for one item, every subscript of which succeeds
VideoData(item) ==
    [video_id |-> item["id"]["videoId"],
     title |-> item["snippet"]["title"],
     description |-> item["snippet"]["description"],
     published_at |-> item["snippet"]["publishedAt"],
     channel_title |-> item["snippet"]["channelTitle"],
     thumbnail_url |-> Get(Get(item["snippet"]["thumbnails"], "default", EmptyDict), "url", ""),
     video_url |-> WatchUrlPrefix \o item["id"]["videoId"]]

\* mutation: an item whose subscripts fail is skipped (a try/except inside the
\* loop) and the others are returned
ProcessVideoItemsSkipsBadItems(items) ==
    Return([i \in 1..Len(SelectSeq(items, Subscriptable)) |->
               VideoData(SelectSeq(items, Subscriptable)[i])])

\* the loop over items: the first failing subscript raises out of the method
\* and the local processed_videos is lost with it
ProcessVideoItems(items) ==
    IF \E i \in 1..Len(items) : ~Subscriptable(items[i])
    THEN Raise("KeyError")
    ELSE Return([i \in 1..Len(items) |-> VideoData(items[i])])

-----------------------------------------------------------------------------
(* The search service: what a request can come back with *)

\* the longest chain of pages the service serves before it runs out of cursors
MaxPages == 3

Thumb(u) == [url |-> u, width |-> 120, height |-> 90]

Snippet(t, thumbs) ==
    [title |-> t, description |-> "about " \o t, publishedAt |-> "2025-10-01T08:30:00Z",
     channelTitle |-> "Channel", thumbnails |-> thumbs]

\* a video result with its default thumbnail
ItemA == [id |-> [kind |-> "youtube#video", videoId |-> "abc123"],
          snippet |-> Snippet("first",
                              [default |-> Thumb("https://i.ytimg.com/vi/abc123/default.jpg"),
                               medium |-> Thumb("https://i.ytimg.com/vi/abc123/mqdefault.jpg")])]
\* a video result without the default-resolution thumbnail
ItemB == [id |-> [kind |-> "youtube#video", videoId |-> "xyz789"],
          snippet |-> Snippet("second",
                              [medium |-> Thumb("https://i.ytimg.com/vi/xyz789/mqdefault.jpg")])]
\* a result whose id has no videoId (the shape of a channel result)
ItemNoId == [id |-> [kind |-> "youtube#channel", channelId |-> "UC-tE4p"],
             snippet |-> Snippet("third", [default |-> Thumb("https://i.ytimg.com/c.jpg")])]
\* a video result whose snippet has no thumbnails object
ItemNoThumbs == [id |-> [kind |-> "youtube#video", videoId |-> "nothumb"],
                 snippet |-> [title |-> "fourth", description |-> "about fourth",
                              publishedAt |-> "2025-09-30T08:30:00Z", channelTitle |-> "Channel"]]

\* the item lists a response can carry
Pages ==
    { <<>>, <<ItemA>>, <<ItemA, ItemB>>, <<ItemB, ItemA>>, <<ItemB, ItemB>>,
      <<ItemA, ItemNoId>>, <<ItemNoThumbs, ItemB>> }

Tokens == {"", "t1", "t2"}

ResponseKind == "youtube#searchListResponse"

\* the response bodies: 'items' and 'nextPageToken' are each present or not
Bodies ==
    {[kind |-> ResponseKind, items |-> p, nextPageToken |-> t] : p \in Pages, t \in Tokens}
        \cup {[kind |-> ResponseKind, items |-> p] : p \in Pages}
        \cup {[kind |-> ResponseKind, nextPageToken |-> t] : t \in Tokens}
        \cup {[kind |-> ResponseKind]}

\* the outcomes of youtube.search().list(**request_params).execute()
Ok(body) == [kind |-> "ok", body |-> body]
HttpError == [kind |-> "HttpError"]
OtherException == [kind |-> "Exception"]
Outcomes == {Ok(b) : b \in Bodies} \cup {HttpError, OtherException}

\* the response names a further page
HasCursor(body) == "nextPageToken" \in DOMAIN body /\ body["nextPageToken"] # ""

-----------------------------------------------------------------------------
(* YouTubeVideoFetcher.fetch_videos *)

ChannelId == "UC-tE4p-L9f0-w1T1-v8a-qA"

\* max_results_per_page: int = 50
DefaultMaxResults == 50

\* mutation: the "if next_page_token" block left out
RequestParamsWithoutToken(channel_id, max_results, published_after, published_before, token) ==
    [part |-> "snippet", channelId |-> channel_id, publishedAfter |-> published_after,
     publishedBefore |-> published_before, videoDuration |-> "short", type |-> "video",
     maxResults |-> max_results, order |-> "date"]

\* request_params of one iteration
RequestParams(channel_id, max_results, published_after, published_before, token) ==
    IF Truthy(token)
    THEN [part |-> "snippet", channelId |-> channel_id, publishedAfter |-> published_after,
          publishedBefore |-> published_before, videoDuration |-> "short", type |-> "video",
          maxResults |-> max_results, order |-> "date", pageToken |-> token]
    ELSE [part |-> "snippet", channelId |-> channel_id, publishedAfter |-> published_after,
          publishedBefore |-> published_before, videoDuration |-> "short", type |-> "video",
          maxResults |-> max_results, order |-> "date"]

\* mutation: the page put in front of the accumulator
ExtendPrepending(acc, page_videos) == page_videos \o acc

\* all_videos.extend(page_videos)
Extend(acc, page_videos) == acc \o page_videos

\* mutation: the except clauses go round the loop again (continue for break)
OnExceptionRetries(acc, token) ==
    [all_videos |-> acc, next_page_token |-> token, break |-> FALSE]

\* mutation: the except clauses give up what was accumulated
OnExceptionDiscards(acc, token) ==
    [all_videos |-> <<>>, next_page_token |-> token, break |-> TRUE]

\* "except HttpError" and "except Exception": a message, and break; the
\* locals are as they were before the failing statement
OnException(acc, token) ==
    [all_videos |-> acc, next_page_token |-> token, break |-> TRUE]

\* mutation: "if not next_page_token: break" left out
IterationWithoutExhaustionBreak(acc, token, outcome) ==
    IF outcome.kind = "ok"
    THEN LET page_videos == ProcessVideoItems(Get(outcome.body, "items", <<>>))
         IN  IF page_videos.raised
             THEN OnException(acc, token)
             ELSE [all_videos |-> Extend(acc, page_videos.value),
                   next_page_token |-> Get(outcome.body, "nextPageToken", NoneVal),
                   break |-> FALSE]
    ELSE OnException(acc, token)

\* the rest of the try block once execute() has come back with `outcome`, and
\* the except clauses: the new accumulator, the new cursor, and whether the
\* loop is left (break).  execute() raising, or _process_video_items raising
\* before all_videos and next_page_token are touched, both end in an except
\* clause
Iteration(acc, token, outcome) ==
    IF outcome.kind = "ok"
    THEN LET items == Get(outcome.body, "items", <<>>)
             page_videos == ProcessVideoItems(items)
             new_token == Get(outcome.body, "nextPageToken", NoneVal)
         IN  IF page_videos.raised
             THEN OnException(acc, token)
             ELSE [all_videos |-> Extend(acc, page_videos.value),
                   next_page_token |-> new_token,
                   break |-> ~Truthy(new_token)]
    ELSE OnException(acc, token)

Pending == [kind |-> "pending"]
Returned(v) == [kind |-> "return", value |-> v]
Raised(e) == [kind |-> "raise", exc |-> e]

\* main(): YouTubeVideoFetcher(api_key) builds the client
InitializeClient ==
    /\ pc = "main"
    /\ pc' = "call"
    /\ UNCHANGED <<now, utcoffset, window, all_videos, next_page_token, page_count,
                   requests, responses, fetch_result, summarized, saved, exit_code,
                   script, first_result, raw_item, norm_result>>

\* build() raises: _initialize_client prints and calls sys.exit(1)
InitializeClientFails ==
    /\ pc = "main"
    /\ pc' = "exited"
    /\ exit_code' = Some(1)
    /\ UNCHANGED <<now, utcoffset, window, all_videos, next_page_token, page_count,
                   requests, responses, fetch_result, summarized, saved,
                   script, first_result, raw_item, norm_result>>

\* fetch_videos up to the loop: the window, the empty accumulator, no cursor
FetchStart ==
    /\ pc = "call"
    /\ window' = GetDateRange(now, utcoffset)
    /\ all_videos' = <<>>
    /\ next_page_token' = NoneVal
    /\ page_count' = 0
    /\ pc' = "loop"
    /\ UNCHANGED <<now, utcoffset, requests, responses, fetch_result, summarized, saved,
                   exit_code, script, first_result, raw_item, norm_result>>

\* the top of an iteration, up to execute(): the request leaves
IssueRequest ==
    /\ pc = "loop"
    /\ page_count' = page_count + 1
    /\ requests' = Append(requests,
                          RequestParams(ChannelId, DefaultMaxResults, window[1], window[2],
                                        next_page_token))
    /\ pc' = "inflight"
    /\ UNCHANGED <<now, utcoffset, window, all_videos, next_page_token, responses,
                   fetch_result, summarized, saved, exit_code, script, first_result,
                   raw_item, norm_result>>

\* execute() comes back (a second of wall-clock time later) and the iteration
\* runs to its end: either back to the top of the loop, or out of the loop and
\* to the return statement
Respond(outcome) ==
    /\ pc = "inflight"
    /\ outcome.kind = "ok" /\ HasCursor(outcome.body) => page_count < MaxPages
    /\ LET it == Iteration(all_videos, next_page_token, outcome)
       IN  /\ all_videos' = it.all_videos
           /\ next_page_token' = it.next_page_token
           /\ IF it.break
              THEN pc' = "returned" /\ fetch_result' = Returned(it.all_videos)
              ELSE pc' = "loop" /\ UNCHANGED fetch_result
    /\ responses' = Append(responses, outcome)
    /\ now' = now + 1
    /\ UNCHANGED <<utcoffset, window, page_count, requests, summarized, saved, exit_code,
                   script, first_result, raw_item, norm_result>>

\* the live service answers as it likes
RespondOk == ~script.has /\ \E body \in Bodies : Respond(Ok(body))
RespondHttpError == ~script.has /\ Respond(HttpError)
RespondException == ~script.has /\ Respond(OtherException)

\* mutation: the interrupt taken by the loop's except clause like any failure
InterruptCaughtByLoop ==
    /\ pc = "inflight"
    /\ ~script.has
    /\ responses' = Append(responses, [kind |-> "KeyboardInterrupt"])
    /\ fetch_result' = Returned(all_videos)
    /\ pc' = "returned"
    /\ now' = now + 1
    /\ UNCHANGED <<utcoffset, window, all_videos, next_page_token, page_count, requests,
                   summarized, saved, exit_code, script, first_result, raw_item, norm_result>>

\* Ctrl-C while execute() blocks: KeyboardInterrupt is no Exception, so neither
\* except clause of the loop takes it; it leaves fetch_videos and main()'s
\* "except KeyboardInterrupt" prints and calls sys.exit(0)
Interrupt ==
    /\ pc = "inflight"
    /\ ~script.has
    /\ responses' = Append(responses, [kind |-> "KeyboardInterrupt"])
    /\ fetch_result' = Raised("KeyboardInterrupt")
    /\ exit_code' = Some(0)
    /\ pc' = "exited"
    /\ now' = now + 1
    /\ UNCHANGED <<utcoffset, window, all_videos, next_page_token, page_count, requests,
                   summarized, saved, script, first_result, raw_item, norm_result>>

\* main() after fetch_videos returned: "if videos:" summary and save, else a message
MainReport ==
    /\ pc = "returned"
    /\ IF TruthyList(fetch_result.value)
       THEN summarized' = Some(fetch_result.value) /\ saved' = Some(fetch_result.value)
       ELSE UNCHANGED <<summarized, saved>>
    /\ pc' = "done"
    /\ UNCHANGED <<now, utcoffset, window, all_videos, next_page_token, page_count,
                   requests, responses, fetch_result, exit_code, script, first_result,
                   raw_item, norm_result>>

\* the instants main() starts at: 2025-10-26T12:00:00Z
StartInstants == {1761480000}

StartOffsets == {0, 19800}

Init ==
    /\ pc = "main"
    /\ now \in StartInstants
    /\ utcoffset \in StartOffsets
    /\ window = <<"", "">>
    /\ all_videos = <<>>
    /\ next_page_token = NoneVal
    /\ page_count = 0
    /\ requests = <<>>
    /\ responses = <<>>
    /\ fetch_result = Pending
    /\ summarized = Nothing
    /\ saved = Nothing
    /\ exit_code = Nothing
    /\ script = Nothing
    /\ first_result = Pending
    /\ raw_item = ItemA
    /\ norm_result = Nothing

Next ==
    \/ InitializeClient
    \/ InitializeClientFails
    \/ FetchStart
    \/ IssueRequest
    \/ RespondOk
    \/ RespondHttpError
    \/ RespondException
    \/ Interrupt
    \/ MainReport

Spec == Init /\ [][Next]_vars

-----------------------------------------------------------------------------
(* A second call against a scripted service.  After a call that a failure   *)
(* cut short, fetch_videos is called again against a mock that serves the   *)
(* pages the first call accumulated and then runs out of cursors.           *)

Last(seq) == seq[Len(seq)]

\* the call ended in one of the except clauses: the request failed, or the
\* normalisation of the received page raised
Truncated(resps) ==
    /\ Len(resps) > 0
    /\ \/ Last(resps).kind \in {"HttpError", "Exception"}
       \/ /\ Last(resps).kind = "ok"
          /\ ProcessVideoItems(Get(Last(resps).body, "items", <<>>)).raised

StripCursor(body) == [k \in DOMAIN body \ {"nextPageToken"} |-> body[k]]

\* the pages before the failing request, the last of them without its cursor;
\* an empty channel when the very first request failed
ExhaustingScript(resps) ==
    LET k == Len(resps)
    IN  IF k = 1
        THEN <<[kind |-> ResponseKind, items |-> <<>>]>>
        ELSE [i \in 1..(k - 1) |->
                 IF i < k - 1 THEN resps[i].body ELSE StripCursor(resps[i].body)]

StartReplay ==
    /\ pc = "returned"
    /\ ~script.has
    /\ Truncated(responses)
    /\ script' = Some(ExhaustingScript(responses))
    /\ first_result' = fetch_result
    /\ pc' = "call"
    /\ requests' = <<>>
    /\ responses' = <<>>
    /\ fetch_result' = Pending
    /\ UNCHANGED <<now, utcoffset, window, all_videos, next_page_token, page_count,
                   summarized, saved, exit_code, raw_item, norm_result>>

\* the scripted service answers the n-th request with the n-th body of its script
RespondScripted ==
    /\ script.has
    /\ page_count \in 1..Len(script.val)
    /\ Respond(Ok(script.val[page_count]))

TwinNext == Next \/ StartReplay \/ RespondScripted

TwinSpec == Init /\ [][TwinNext]_vars

-----------------------------------------------------------------------------
(* fetch_videos under the proviso that every request completes: no          *)
(* interrupt, and neither the loop's next request nor the service's answer  *)
(* to a request in flight is postponed for ever                             *)

LiveNext ==
    \/ InitializeClient
    \/ FetchStart
    \/ IssueRequest
    \/ RespondOk
    \/ RespondHttpError
    \/ RespondException
    \/ MainReport

LiveSpec ==
    /\ Init
    /\ [][LiveNext]_vars
    /\ WF_vars(IssueRequest)
    /\ WF_vars(RespondOk \/ RespondHttpError \/ RespondException)

-----------------------------------------------------------------------------
(* _get_date_range on its own: fetch_videos entered at any of a set of      *)
(* instants, in any of a set of zones                                       *)

\* 2025-10-26T12:00:00Z, 2024-02-29T23:59:00Z, 2025-02-28T23:59:00Z,
\* 2025-03-01T00:00:00Z, 2024-12-31T23:59:00Z, 2000-02-29T12:00:00Z
BaseInstants == {1761480000, 1709251140, 1740787140, 1740787200, 1735689540, 951825600}

Instants == {b + d : b \in BaseInstants, d \in {0, 1, 59, 60, 3599}}

\* UTC-8, UTC-4, UTC, UTC+1, UTC+5:30
Offsets == {-28800, -14400, 0, 3600, 19800}

DateInit ==
    /\ pc = "call"
    /\ now \in Instants
    /\ utcoffset \in Offsets
    /\ window = <<"", "">>
    /\ all_videos = <<>>
    /\ next_page_token = NoneVal
    /\ page_count = 0
    /\ requests = <<>>
    /\ responses = <<>>
    /\ fetch_result = Pending
    /\ summarized = Nothing
    /\ saved = Nothing
    /\ exit_code = Nothing
    /\ script = Nothing
    /\ first_result = Pending
    /\ raw_item = ItemA
    /\ norm_result = Nothing

DateSpec == DateInit /\ [][FetchStart]_vars

-----------------------------------------------------------------------------
(* _process_video_items on its own, over raw items with every combination   *)
(* of present and absent keys                                               *)

ScalarKeys == {"title", "description", "publishedAt", "channelTitle"}

SnippetValue(k, thumbs) ==
    CASE k = "title" -> "a title"
      [] k = "description" -> "a description"
      [] k = "publishedAt" -> "2025-10-01T08:30:00Z"
      [] k = "channelTitle" -> "a channel"
      [] k = "thumbnails" -> thumbs

\* the thumbnails objects: with a default that has a url, with a default
\* without url, without default, empty
ThumbnailObjects ==
    { [default |-> [url |-> "https://i.ytimg.com/vi/abc123/default.jpg", width |-> 120]],
      [default |-> [width |-> 120]],
      [medium |-> [url |-> "https://i.ytimg.com/vi/abc123/mqdefault.jpg"]],
      EmptyDict }

\* snippets with all keys, with one scalar key absent, with thumbnails absent
Snippets ==
    {[k \in ScalarKeys \cup {"thumbnails"} |-> SnippetValue(k, th)] : th \in ThumbnailObjects}
        \cup {[k \in (ScalarKeys \ {absent}) \cup {"thumbnails"} |-> SnippetValue(k, th)] :
                 absent \in ScalarKeys, th \in ThumbnailObjects}
        \cup {[k \in ScalarKeys |-> SnippetValue(k, EmptyDict)]}

Ids == {[kind |-> "youtube#video", videoId |-> "abc123"],
        [kind |-> "youtube#video", videoId |-> "xyz789"],
        [kind |-> "youtube#video", videoId |-> ""],
        [kind |-> "youtube#channel", channelId |-> "UC-tE4p"]}

RawItems ==
    {[id |-> i, snippet |-> sn] : i \in Ids, sn \in Snippets}
        \cup {[id |-> i] : i \in Ids}
        \cup {[snippet |-> sn] : sn \in Snippets}

NormInit ==
    /\ pc = "normalize"
    /\ raw_item \in RawItems
    /\ norm_result = Nothing
    /\ now \in StartInstants
    /\ utcoffset = 0
    /\ window = <<"", "">>
    /\ all_videos = <<>>
    /\ next_page_token = NoneVal
    /\ page_count = 0
    /\ requests = <<>>
    /\ responses = <<>>
    /\ fetch_result = Pending
    /\ summarized = Nothing
    /\ saved = Nothing
    /\ exit_code = Nothing
    /\ script = Nothing
    /\ first_result = Pending

\* _process_video_items([raw_item, raw_item]): the same item normalised twice
NormalizeTwice ==
    /\ pc = "normalize"
    /\ norm_result' = Some(ProcessVideoItems(<<raw_item, raw_item>>))
    /\ pc' = "normalized"
    /\ UNCHANGED <<now, utcoffset, window, all_videos, next_page_token, page_count,
                   requests, responses, fetch_result, summarized, saved, exit_code,
                   script, first_result, raw_item>>

NormSpec == NormInit /\ [][NormalizeTwice]_vars

-----------------------------------------------------------------------------
(* Vocabulary of the properties *)

\* the items of a response body, none when it has no 'items'
PageItems(body) == Get(body, "items", <<>>)

\* the keys section 4.3 and the record's fields call for: the identifier and
\* the four copied strings
CarriesRequiredFields(item) ==
    /\ "id" \in DOMAIN item
    /\ "videoId" \in DOMAIN item["id"]
    /\ "snippet" \in DOMAIN item
    /\ {"title", "description", "publishedAt", "channelTitle"} \subseteq DOMAIN item["snippet"]

HasThumbnailsObject(item) == "thumbnails" \in DOMAIN item["snippet"]

\* thumbnails.default.url when present, "" when the default thumbnail is absent
DefaultThumbnailUrl(item) ==
    IF /\ "thumbnails" \in DOMAIN item["snippet"]
       /\ "default" \in DOMAIN item["snippet"]["thumbnails"]
       /\ "url" \in DOMAIN item["snippet"]["thumbnails"]["default"]
    THEN item["snippet"]["thumbnails"]["default"]["url"]
    ELSE ""

\* the reference normalisation of an item that carries the required fields
ReferenceRecord(item) ==
    [video_id |-> item["id"]["videoId"],
     title |-> item["snippet"]["title"],
     description |-> item["snippet"]["description"],
     published_at |-> item["snippet"]["publishedAt"],
     channel_title |-> item["snippet"]["channelTitle"],
     thumbnail_url |-> DefaultThumbnailUrl(item),
     video_url |-> "https://www.youtube.com/watch?v=" \o item["id"]["videoId"]]

ReferencePage(items) == [i \in 1..Len(items) |-> ReferenceRecord(items[i])]

\* every item of the page can be normalised by the code
Normalizable(items) ==
    \A i \in 1..Len(items) : CarriesRequiredFields(items[i]) /\ HasThumbnailsObject(items[i])

\* the items of the first n responses, in the order received
RECURSIVE ItemsUpTo(_, _)
ItemsUpTo(resps, n) ==
    IF n = 0 THEN <<>> ELSE ItemsUpTo(resps, n - 1) \o PageItems(resps[n].body)

\* the call is over and handed main() a value
FetchReturned == fetch_result.kind = "return"

\* the service answered every request of the call successfully, every answer
\* but the last with a cursor, the last without
ExhaustedAfter(resps, n) ==
    /\ n >= 1
    /\ Len(resps) >= n
    /\ \A i \in 1..n : resps[i].kind = "ok"
    /\ \A i \in 1..(n - 1) : HasCursor(resps[i].body)
    /\ ~HasCursor(resps[n].body)

-----------------------------------------------------------------------------
(* C1 *)

\* C1 as stated: whenever the service answered n-1 requests with a cursor and
\* the n-th without, the call made exactly n requests and returned one record
\* per item received, in order, each the normalisation of its item.
C1_AllPagesWhateverTheItems ==
    \A n \in 1..Len(responses) :
        ExhaustedAfter(responses, n) =>
            /\ FetchReturned
            /\ Len(requests) = n
            /\ Len(responses) = n
            /\ LET items == ItemsUpTo(responses, n)
               IN  /\ Len(fetch_result.value) = Len(items)
                   /\ \A j \in 1..Len(items) :
                          CarriesRequiredFields(items[j]) =>
                              fetch_result.value[j] = ReferenceRecord(items[j])

\* C1, amended: whenever the service answered n-1 requests with a (non-empty)
\* cursor and the n-th without, and every item of those n pages carries every
\* key the normaliser subscripts, the call made exactly n requests and returned
\* the normalised records of pages 1..n concatenated in request order, each
\* page in the order the service returned it.
C1_AllPagesInOrder ==
    \A n \in 1..Len(responses) :
        ExhaustedAfter(responses, n) /\ Normalizable(ItemsUpTo(responses, n)) =>
            /\ FetchReturned
            /\ Len(requests) = n
            /\ Len(responses) = n
            /\ fetch_result.value = ReferencePage(ItemsUpTo(responses, n))

\* three pages with the cursors t1, t2, none, the pages holding different records
C1_ThreePagesWitness ==
    /\ FetchReturned
    /\ ExhaustedAfter(responses, 3)
    /\ responses[1].body["nextPageToken"] = "t1"
    /\ responses[2].body["nextPageToken"] = "t2"
    /\ PageItems(responses[1].body) = <<ItemB, ItemA>>
    /\ PageItems(responses[2].body) = <<ItemA>>
    /\ PageItems(responses[3].body) = <<ItemA, ItemB>>
    /\ Len(fetch_result.value) = 5

-----------------------------------------------------------------------------
(* C2 *)

Failed(outcome) == outcome.kind \in {"HttpError", "Exception"}

\* C2: a failed request is the last request of its call (no retry, nothing
\* after it): once the k-th request has failed the call has returned, not
\* raised, exactly the normalised records of pages 1..k-1.
C2_FailureReturnsEarlierPages ==
    \A k \in 1..Len(responses) :
        Failed(responses[k]) =>
            /\ k = Len(responses)
            /\ Len(requests) = k
            /\ pc \in {"returned", "done"}
            /\ exit_code = Nothing
            /\ fetch_result = Returned(ReferencePage(ItemsUpTo(responses, k - 1)))

\* page 1 came with cursor t1 and two items, request 2 failed
C2_SecondRequestFailsWitness ==
    /\ Len(responses) = 2
    /\ responses[1] = Ok([kind |-> ResponseKind, items |-> <<ItemA, ItemB>>,
                          nextPageToken |-> "t1"])
    /\ responses[2] = HttpError
    /\ Len(fetch_result.value) = 2

-----------------------------------------------------------------------------
(* C3 *)

\* C3: when the first response has zero items and no cursor, the call returns
\* the empty sequence after exactly one request and nothing is raised.
C3_EmptyChannel ==
    (/\ Len(responses) >= 1
     /\ responses[1].kind = "ok"
     /\ PageItems(responses[1].body) = <<>>
     /\ ~HasCursor(responses[1].body)) =>
        /\ fetch_result = Returned(<<>>)
        /\ Len(requests) = 1
        /\ Len(responses) = 1
        /\ exit_code = Nothing

C3_EmptyChannelWitness ==
    /\ responses = <<Ok([kind |-> ResponseKind, items |-> <<>>])>>
    /\ pc = "done"
    /\ saved = Nothing

-----------------------------------------------------------------------------
(* C4 *)

Interrupted == Len(responses) > 0 /\ Last(responses).kind = "KeyboardInterrupt"

\* C4: a KeyboardInterrupt during a page request leaves fetch_videos as an
\* exception (no value returned), nothing is summarised or saved, and the
\* process exits through main()'s handler, however many pages were fetched.
C4_InterruptAbortsCall ==
    Interrupted =>
        /\ fetch_result = Raised("KeyboardInterrupt")
        /\ summarized = Nothing
        /\ saved = Nothing
        /\ pc = "exited"
        /\ exit_code = Some(0)

\* interrupted in the third request, with records of two pages accumulated
C4_InterruptAfterTwoPagesWitness ==
    /\ Interrupted
    /\ Len(responses) = 3
    /\ Len(all_videos) >= 2
    /\ pc = "exited"

-----------------------------------------------------------------------------
(* C5 *)

WindowComputed == pc = "loop" /\ page_count = 0 /\ requests = <<>>

\* C5: the pair returned at instant now is (after, before) with before
\* denoting now and after denoting now minus exactly 365 days, both written
\* as UTC date-times with seconds precision and the zone marker Z, and after
\* strictly earlier than before.
C5_WindowDenotesNowInUtc ==
    WindowComputed =>
        /\ IsUtcSecondsTimestamp(window[1])
        /\ IsUtcSecondsTimestamp(window[2])
        /\ InstantOf(window[2]) = now
        /\ InstantOf(window[1]) = now - 365 * 86400
        /\ InstantOf(window[1]) < InstantOf(window[2])

\* what the pair does satisfy in every zone: the format, the distance of
\* exactly 365 days between the two readings, and their order; and in a zone
\* of offset zero the readings denote now and now minus 365 days
C5_WindowShapeAndSpan ==
    WindowComputed =>
        /\ IsUtcSecondsTimestamp(window[1])
        /\ IsUtcSecondsTimestamp(window[2])
        /\ InstantOf(window[2]) - InstantOf(window[1]) = 365 * 86400
        /\ InstantOf(window[2]) = now + utcoffset

-----------------------------------------------------------------------------
(* C6 *)

Normalized == pc = "normalized" /\ norm_result.has

\* C6 as stated: every item that carries the required fields is normalised to
\* the reference record (thumbnail_url "" when there is no default thumbnail),
\* and both normalisations of the item give that record.
C6_EveryItemWithRequiredFields ==
    (Normalized /\ CarriesRequiredFields(raw_item)) =>
        /\ ~norm_result.val.raised
        /\ norm_result.val.value = <<ReferenceRecord(raw_item), ReferenceRecord(raw_item)>>

\* C6, amended: every item that carries the required fields and a thumbnails
\* object is normalised to the reference record: the five strings copied,
\* video_url the watch prefix followed by id.videoId, thumbnail_url the
\* default thumbnail's url when present and "" when the thumbnails object has
\* no default entry or that entry no url; both normalisations of the item give
\* that record.  An item without thumbnails object, or without one of the
\* required fields, is not normalised: the call raises.
C6_ReferenceNormalization ==
    Normalized =>
        IF CarriesRequiredFields(raw_item) /\ HasThumbnailsObject(raw_item)
        THEN /\ ~norm_result.val.raised
             /\ norm_result.val.value
                    = <<ReferenceRecord(raw_item), ReferenceRecord(raw_item)>>
        ELSE norm_result.val.raised

\* id.videoId = "abc123" and no default thumbnail
C6_MissingDefaultThumbnailWitness ==
    /\ Normalized
    /\ CarriesRequiredFields(raw_item)
    /\ raw_item["id"]["videoId"] = "abc123"
    /\ HasThumbnailsObject(raw_item)
    /\ "default" \notin DOMAIN raw_item["snippet"]["thumbnails"]
    /\ ~norm_result.val.raised
    /\ norm_result.val.value[1].video_url = "https://www.youtube.com/watch?v=abc123"
    /\ norm_result.val.value[1].thumbnail_url = ""

-----------------------------------------------------------------------------
(* C7 *)

\* the response that ended the iteration
Answer == Last(responses')

LoopLeft == pc = "inflight" /\ pc' = "returned"
LoopContinues == pc = "inflight" /\ pc' = "loop"

\* C7 as stated, its second half: the loop is left only on a successful
\* response without cursor or on a failed request.
C7_TwoExitsOnly ==
    [][LoopLeft => \/ Failed(Answer)
                   \/ Answer.kind = "ok" /\ ~HasCursor(Answer.body)]_vars

\* C7, amended: every call returns once every request completes and the
\* service runs out of cursors or fails; the loop is left on a successful
\* response without cursor, on a failed request, or when normalising a
\* successfully received page raises, and on nothing else: with a cursor and a
\* normalisable page it always goes on, whatever the number of pages so far.
C7_ReturnsAndThreeExits ==
    /\ (pc = "loop") ~> FetchReturned
    /\ [][LoopLeft => \/ Failed(Answer)
                      \/ Answer.kind = "ok" /\ ~HasCursor(Answer.body)
                      \/ Answer.kind = "ok" /\ ~Normalizable(PageItems(Answer.body))]_vars
    /\ [][LoopContinues => /\ Answer.kind = "ok"
                           /\ HasCursor(Answer.body)
                           /\ Normalizable(PageItems(Answer.body))]_vars
    /\ [](pc = "inflight" => Len(requests) = Len(responses) + 1)

\* each of the three exits taken, the third with a cursor in hand
C7_ExitByNormalizationWitness ==
    /\ pc = "returned"
    /\ Len(responses) = 2
    /\ responses[2].kind = "ok"
    /\ HasCursor(responses[2].body)
    /\ ~Normalizable(PageItems(responses[2].body))

-----------------------------------------------------------------------------
(* C8 *)

BaseKeys == {"part", "channelId", "publishedAfter", "publishedBefore", "videoDuration",
             "type", "maxResults", "order"}

\* C8: the first request of a call carries no pageToken, every later one
\* exactly the cursor of the response before it; the other parameters are the
\* same on every request, the window being the one computed when the call
\* began, however far the clock has moved since.
C8_RequestParameters ==
    \A i \in 1..Len(requests) :
        LET r == requests[i]
        IN  /\ r.part = "snippet"
            /\ r.channelId = ChannelId
            /\ r.videoDuration = "short"
            /\ r.type = "video"
            /\ r.maxResults = DefaultMaxResults
            /\ r.order = "date"
            /\ \E t \in StartInstants :
                   <<r.publishedAfter, r.publishedBefore>> = GetDateRange(t, utcoffset)
            /\ r.publishedAfter = requests[1].publishedAfter
            /\ r.publishedBefore = requests[1].publishedBefore
            /\ IF i = 1
               THEN DOMAIN r = BaseKeys
               ELSE /\ DOMAIN r = BaseKeys \cup {"pageToken"}
                    /\ r.pageToken = responses[i - 1].body["nextPageToken"]

\* three requests, the second with t1 and the third with t2, the clock two
\* seconds past the instant the window was computed at
C8_ThreeRequestsWitness ==
    /\ Len(requests) = 3
    /\ requests[2].pageToken = "t1"
    /\ requests[3].pageToken = "t2"
    /\ now - 2 \in StartInstants
    /\ requests[3].publishedBefore = requests[1].publishedBefore

-----------------------------------------------------------------------------
(* C9 *)

\* C9: a call cut short by a failure returns a bare sequence, and the call
\* against the service that serves the same earlier pages and then runs out of
\* cursors (an empty channel, when the first request failed) ends by
\* exhaustion and returns the identical sequence.
C9_TruncationLooksLikeExhaustion ==
    /\ (FetchReturned /\ ~script.has /\ Truncated(responses)) =>
           /\ DOMAIN fetch_result = {"kind", "value"}
           /\ exit_code = Nothing
    /\ (FetchReturned /\ script.has) =>
           /\ first_result.kind = "return"
           /\ ExhaustedAfter(responses, Len(script.val))
           /\ Len(requests) = Len(script.val)
           /\ fetch_result = first_result

\* the first call failed on its third request with records in hand, and the
\* second call has returned
C9_TwoPagesThenFailureWitness ==
    /\ FetchReturned
    /\ script.has
    /\ Len(script.val) = 2
    /\ HasCursor(script.val[1])
    /\ Len(first_result.value) >= 3

\* the first call failed on its first request; the second saw an empty channel
C9_FirstRequestFailsWitness ==
    /\ FetchReturned
    /\ script.has
    /\ script.val = <<[kind |-> ResponseKind, items |-> <<>>]>>
    /\ first_result = Returned(<<>>)

-----------------------------------------------------------------------------
(* C10 *)

WholePage(outcome) == outcome.kind = "ok" /\ Normalizable(PageItems(outcome.body))

\* the number of leading responses that are successful and normalisable
RECURSIVE WholePages(_, _)
WholePages(resps, from) ==
    IF from <= Len(resps) /\ WholePage(resps[from])
    THEN 1 + WholePages(resps, from + 1)
    ELSE 0

\* C10: the accumulator is always the concatenation of the whole normalised
\* pages 1..j received so far, and so is the value returned; a successfully
\* received page with an item whose normalisation raises contributes no
\* record at all, is the last response of the call (its cursor is not
\* followed), and the call returns pages 1..j-1 without raising.
C10_WholePagesOnly ==
    LET j == WholePages(responses, 1)
    IN  /\ pc \in {"loop", "inflight", "returned", "done", "exited"} =>
               all_videos = ReferencePage(ItemsUpTo(responses, j))
        /\ FetchReturned => fetch_result.value = ReferencePage(ItemsUpTo(responses, j))
        /\ \A i \in 1..Len(responses) :
               (responses[i].kind = "ok" /\ ~Normalizable(PageItems(responses[i].body))) =>
                   /\ i = Len(responses)
                   /\ Len(requests) = i
                   /\ j = i - 1
                   /\ FetchReturned
                   /\ exit_code = Nothing

\* page 2 came with a cursor and a good item followed by one without videoId
C10_OffendingItemAfterGoodOneWitness ==
    /\ Len(responses) = 2
    /\ responses[1] = Ok([kind |-> ResponseKind, items |-> <<ItemB, ItemA>>,
                          nextPageToken |-> "t1"])
    /\ responses[2] = Ok([kind |-> ResponseKind, items |-> <<ItemA, ItemNoId>>,
                          nextPageToken |-> "t2"])
    /\ fetch_result = Returned(ReferencePage(<<ItemB, ItemA>>))

=============================================================================
